---- MODULE Spec2Model ----
(***************************************************************************)
(* Model of the course event subsystem of course-calendar                  *)
(* (src/src/course.rs): expansion of repeated sessions into weeks          *)
(* (Course::generate_repeats) and the derivation of the sorted event list  *)
(* (Course::events), with the description accessor of Event.               *)
(*                                                                         *)
(* Encoding of the Rust values:                                            *)
(*   String, Url       a natural number (compared as the number)           *)
(*   Option<T>         a sequence of length 0 (None) or 1 (Some), so that  *)
(*                     the derived order None < Some(_) is the             *)
(*                     lexicographic order of the sequences                *)
(*   Vec<T>            a sequence                                          *)
(*   DateTime, Duration integers (an instant / a number of seconds);       *)
(*                     DateTime<FixedOffset> compares by instant           *)
(*   usize week index  a natural number, 0-based as in the source          *)
(***************************************************************************)
EXTENDS Integers, Sequences, FiniteSets, TLC

VARIABLES
    weeks,            \* Course.weeks: Seq of [start, sessions]
    assignments,      \* Course.assignments
    repeat_sessions,  \* Course.repeat_sessions
    result,           \* outcome of the last generate_repeats call
    before,           \* the course as it was when that call was entered
    native,           \* the weeks as loaded, before any expansion
    calls,            \* number of successful generate_repeats calls
    output,           \* the sequence returned by the last events() call
    previous,         \* the sequence returned by the events() call before it
    descriptions,     \* what Event::description returned for each event of output
    evCalls           \* events() calls since the course last changed (capped at 2)

vars == <<weeks, assignments, repeat_sessions, result, before, native, calls,
          output, previous, descriptions, evCalls>>

\* ---------------------------------------------------------------- bounds
MaxWeeks == 2
MaxTemplates == 2
MaxCalls == 2

\* ------------------------------------------------------------- std helpers
\* Vec::get with an index past the end resolved to the last element.
Get_Clamped(v, i) ==
    IF v = <<>> THEN <<>>
    ELSE IF i < Len(v) THEN <<v[i + 1]>> ELSE <<v[Len(v)]>>

\* Vec::get with a 0-based index: Some(&v[i]) or None.
Get(v, i) == IF i < Len(v) THEN <<v[i + 1]>> ELSE <<>>

RECURSIVE Flatten(_)
\* Iterator::flat_map / Vec::extend: the concatenation of a sequence of sequences.
Flatten(ss) == IF ss = <<>> THEN <<>> ELSE Head(ss) \o Flatten(Tail(ss))

\* ------------------------------------------------------ generate_repeats
\* duplicate with the offset taken from the target week instead of the first one.
duplicate_TargetOffset(self, first_week, week_start) ==
    LET offset == self.first - week_start
    IN  [ kind       |-> self.kind,
          title      |-> self.title,
          presenters |-> self.presenters,
          location   |-> self.location,
          time       |-> week_start + offset,
          duration   |-> self.duration ]

\* RepeatSession::duplicate
duplicate(self, first_week, week_start) ==
    LET offset == self.first - first_week
    IN  [ kind       |-> self.kind,
          title      |-> self.title,
          presenters |-> self.presenters,
          location   |-> self.location,
          time       |-> week_start + offset,
          duration   |-> self.duration ]

RECURSIVE ScheduleWeeks_Skip(_, _, _, _, _)
\* The inner loop with a missing target week skipped instead of reported.
ScheduleWeeks_Skip(ws, session, first_week, k, acc) ==
    IF k > Len(session.weeks)
    THEN [ok |-> TRUE, sessions |-> acc]
    ELSE LET week_no == session.weeks[k]
             week    == Get(ws, week_no)
         IN  IF week = <<>>
             THEN ScheduleWeeks_Skip(ws, session, first_week, k + 1, acc)
             ELSE ScheduleWeeks_Skip(ws, session, first_week, k + 1,
                      Append(acc, <<week_no,
                                    duplicate(session, first_week, week[1].start)>>))

RECURSIVE ScheduleWeeks(_, _, _, _, _)
\* The inner loop `for week_no in &session.weeks` from position k on; acc is
\* the local vector `sessions`.  The `?` returns the error at once.
ScheduleWeeks(ws, session, first_week, k, acc) ==
    IF k > Len(session.weeks)
    THEN [ok |-> TRUE, sessions |-> acc]
    ELSE LET week_no == session.weeks[k]
             week    == Get(ws, week_no)
         IN  IF week = <<>>
             THEN [ok |-> FALSE, site |-> "schedule",
                   kind |-> session.kind, index |-> week_no]
             ELSE ScheduleWeeks(ws, session, first_week, k + 1,
                      Append(acc, <<week_no,
                                    duplicate(session, first_week, week[1].start)>>))

RECURSIVE ScheduleRepeats_EmptyIsError(_, _, _, _)
\* The outer loop with a template without weeks reported as an error.
ScheduleRepeats_EmptyIsError(ws, rs, i, acc) ==
    IF i > Len(rs)
    THEN [ok |-> TRUE, sessions |-> acc]
    ELSE LET session == rs[i]
             first   == Get(session.weeks, 0)
         IN  IF first = <<>>
             THEN [ok |-> FALSE, site |-> "request",
                   kind |-> session.kind, index |-> 0]
             ELSE LET ref == Get(ws, first[1])
                  IN  IF ref = <<>>
                      THEN [ok |-> FALSE, site |-> "request",
                            kind |-> session.kind, index |-> first[1]]
                      ELSE LET r == ScheduleWeeks(ws, session, ref[1].start, 1, acc)
                           IN  IF r.ok
                               THEN ScheduleRepeats_EmptyIsError(ws, rs, i + 1, r.sessions)
                               ELSE r

RECURSIVE ScheduleRepeats(_, _, _, _)
\* The outer loop `for session in &self.repeat_sessions` from template i on.
ScheduleRepeats(ws, rs, i, acc) ==
    IF i > Len(rs)
    THEN [ok |-> TRUE, sessions |-> acc]
    ELSE LET session == rs[i]
             first   == Get(session.weeks, 0)
         IN  IF first = <<>>
             THEN ScheduleRepeats(ws, rs, i + 1, acc)            \* continue
             ELSE LET ref == Get(ws, first[1])
                  IN  IF ref = <<>>
                      THEN [ok |-> FALSE, site |-> "request",
                            kind |-> session.kind, index |-> first[1]]
                      ELSE LET r == ScheduleWeeks(ws, session, ref[1].start, 1, acc)
                           IN  IF r.ok
                               THEN ScheduleRepeats(ws, rs, i + 1, r.sessions)
                               ELSE r

RECURSIVE PushSessions_Dedup(_, _)
\* The drain with a session dropped when its week already received an equal one.
PushSessions_Dedup(ws, sessions) ==
    IF sessions = <<>>
    THEN ws
    ELSE LET week    == Head(sessions)[1]
             session == Head(sessions)[2]
         IN  PushSessions_Dedup(
                 IF \E j \in DOMAIN ws[week + 1].sessions :
                        ws[week + 1].sessions[j] = session
                 THEN ws
                 ELSE [ws EXCEPT ![week + 1].sessions = Append(@, session)],
                 Tail(sessions))

RECURSIVE PushSessions_Front(_, _)
\* The drain with each session inserted at the front of its week.
PushSessions_Front(ws, sessions) ==
    IF sessions = <<>>
    THEN ws
    ELSE LET week    == Head(sessions)[1]
             session == Head(sessions)[2]
         IN  PushSessions_Front(
                 [ws EXCEPT ![week + 1].sessions = <<session>> \o @],
                 Tail(sessions))

RECURSIVE PushSessions(_, _)
\* `for (week, session) in sessions.drain(..) { self.weeks[week].sessions.push(session) }`
PushSessions(ws, sessions) ==
    IF sessions = <<>>
    THEN ws
    ELSE LET week    == Head(sessions)[1]
             session == Head(sessions)[2]
         IN  PushSessions(
                 [ws EXCEPT ![week + 1].sessions = Append(@, session)],
                 Tail(sessions))

\* generate_repeats guarded against running twice: a session its week already
\* holds is not pushed again.
generate_repeats_Once(ws, rs) ==
    LET r == ScheduleRepeats(ws, rs, 1, <<>>)
    IN  IF r.ok
        THEN [weeks |-> PushSessions(ws,
                 SelectSeq(r.sessions,
                     LAMBDA p : \A j \in DOMAIN ws[p[1] + 1].sessions :
                                    ws[p[1] + 1].sessions[j] # p[2])),
              result |-> [status |-> "ok"]]
        ELSE [weeks |-> ws,
              result |-> [status |-> "err", site |-> r.site,
                          kind |-> r.kind, index |-> r.index]]

\* Course::generate_repeats: the weeks after the call and the returned Result.
generate_repeats(ws, rs) ==
    LET r == ScheduleRepeats(ws, rs, 1, <<>>)
    IN  IF r.ok
        THEN [weeks |-> PushSessions(ws, r.sessions), result |-> [status |-> "ok"]]
        ELSE [weeks |-> ws,
              result |-> [status |-> "err", site |-> r.site,
                          kind |-> r.kind, index |-> r.index]]

\* ------------------------------------------------------------ the order
\* Ord on integers (instants, durations, strings, indices): -1, 0 or 1.
CmpInt(a, b) == IF a < b THEN -1 ELSE IF a > b THEN 1 ELSE 0

\* The derived lexicographic chaining of field comparisons (Ordering::then).
Then(c, d) == IF c # 0 THEN c ELSE d

RECURSIVE CmpInts(_, _)
\* Ord of Vec<String>, Vec<usize>, Option<String> and Option<u64>: lexicographic, a proper prefix is less.
CmpInts(a, b) ==
    IF a = <<>> /\ b = <<>> THEN 0
    ELSE IF a = <<>> THEN -1
    ELSE IF b = <<>> THEN 1
    ELSE LET c == CmpInt(Head(a), Head(b))
         IN  IF c # 0 THEN c ELSE CmpInts(Tail(a), Tail(b))

\* #[derive(Ord)] of Session: fields in declaration order.
CmpSession(a, b) ==
    Then(CmpInt(a.time, b.time),
    Then(CmpInts(a.title, b.title),
    Then(CmpInts(a.location, b.location),
    Then(CmpInts(a.presenters, b.presenters),
    Then(CmpInt(a.kind, b.kind),
         CmpInt(a.duration, b.duration))))))

\* #[derive(Ord)] of Submission.
CmpSubmission(a, b) ==
    Then(CmpInt(a.time, b.time),
    Then(CmpInt(a.name, b.name),
         CmpInts(a.description, b.description)))

RECURSIVE CmpSubmissions(_, _)
\* Ord of Vec<Submission>: lexicographic, a proper prefix is less.
CmpSubmissions(a, b) ==
    IF a = <<>> /\ b = <<>> THEN 0
    ELSE IF a = <<>> THEN -1
    ELSE IF b = <<>> THEN 1
    ELSE LET c == CmpSubmission(Head(a), Head(b))
         IN  IF c # 0 THEN c ELSE CmpSubmissions(Tail(a), Tail(b))

\* #[derive(Ord)] of Presentation.
CmpPresentation(a, b) ==
    Then(CmpInt(a.name, b.name),
    Then(CmpInt(a.session, b.session),
    Then(CmpInts(a.description, b.description),
         CmpInts(a.weeks, b.weeks))))

RECURSIVE CmpPresentations(_, _)
\* Ord of Vec<Presentation>: lexicographic, a proper prefix is less.
CmpPresentations(a, b) ==
    IF a = <<>> /\ b = <<>> THEN 0
    ELSE IF a = <<>> THEN -1
    ELSE IF b = <<>> THEN 1
    ELSE LET c == CmpPresentation(Head(a), Head(b))
         IN  IF c # 0 THEN c ELSE CmpPresentations(Tail(a), Tail(b))

\* #[derive(Ord)] of Assignment.
CmpAssignment(a, b) ==
    Then(CmpInt(a.name, b.name),
    Then(CmpInts(a.description, b.description),
    Then(CmpInt(a.link, b.link),
    Then(CmpInts(a.value, b.value),
    Then(CmpSubmissions(a.submissions, b.submissions),
         CmpPresentations(a.presentations, b.presentations))))))

\* The variants ranked by name instead of by declaration.
VariantRank_ByName(tag) ==
    CASE tag = "Presentation" -> 0
      [] tag = "Session" -> 1
      [] tag = "Submission" -> 2

\* Position of a variant in the declaration of EventBase.
VariantRank(tag) ==
    CASE tag = "Session" -> 0
      [] tag = "Submission" -> 1
      [] tag = "Presentation" -> 2

\* #[derive(Ord)] of EventBase: the variant first, then its fields in order.
CmpEventBase(a, b) ==
    IF a.tag # b.tag
    THEN CmpInt(VariantRank(a.tag), VariantRank(b.tag))
    ELSE CASE a.tag = "Session" -> CmpSession(a.s, b.s)
           [] a.tag = "Submission" ->
                Then(CmpAssignment(a.a, b.a), CmpSubmission(a.sub, b.sub))
           [] a.tag = "Presentation" ->
                Then(CmpAssignment(a.a, b.a),
                Then(CmpPresentation(a.p, b.p), CmpSession(a.s, b.s)))

\* #[derive(Ord)] of Event: start, then base.
CmpEvent(a, b) ==
    Then(CmpInt(a.start, b.start), CmpEventBase(a.base, b.base))

RECURSIVE InsertSorted(_, _)
\* Places e behind every element that is not greater than it.
InsertSorted(s, e) ==
    IF s = <<>> THEN <<e>>
    ELSE LET last == s[Len(s)]
         IN  IF CmpEvent(last, e) <= 0
             THEN Append(s, e)
             ELSE Append(InsertSorted(SubSeq(s, 1, Len(s) - 1), e), last)

RECURSIVE Sort(_)
\* Vec::sort: a stable sort by Ord (equal elements keep their order).
Sort(s) ==
    IF s = <<>> THEN <<>>
    ELSE InsertSorted(Sort(SubSeq(s, 1, Len(s) - 1)), s[Len(s)])

\* ---------------------------------------------------------------- events
\* impl From<&Session> for Event
SessionEvent(session) ==
    [start |-> session.time, base |-> [tag |-> "Session", s |-> session]]

\* The (session, presentation) pairs of Assignment::events: every
\* presentation, every week index of it that Vec::get resolves, every
\* session of that week.
PresentationPairs(self, ws) ==
    Flatten([pi \in 1..Len(self.presentations) |->
        LET p == self.presentations[pi]
        IN  Flatten([k \in 1..Len(p.weeks) |->
                LET w == Get(ws, p.weeks[k])
                IN  IF w = <<>> THEN <<>>
                    ELSE [j \in 1..Len(w[1].sessions) |-> <<w[1].sessions[j], p>>]])])

\* AssignmentEvents::next without the comparison of the session kind.
AssignmentEvents_AnyKind(self, ws) ==
    LET subs  == [i \in 1..Len(self.submissions) |->
                    [start |-> self.submissions[i].time,
                     base  |-> [tag |-> "Submission", a |-> self,
                                sub |-> self.submissions[i]]]]
        pairs == PresentationPairs(self, ws)
        pres  == [i \in 1..Len(pairs) |->
                    [start |-> pairs[i][1].time,
                     base  |-> [tag |-> "Presentation", a |-> self,
                                p |-> pairs[i][2], s |-> pairs[i][1]]]]
    IN  subs \o pres

\* AssignmentEvents::next, run to exhaustion: the submissions first, then the
\* pairs whose session kind is the presentation's session label.
AssignmentEvents(self, ws) ==
    LET subs  == [i \in 1..Len(self.submissions) |->
                    [start |-> self.submissions[i].time,
                     base  |-> [tag |-> "Submission", a |-> self,
                                sub |-> self.submissions[i]]]]
        pairs == SelectSeq(PresentationPairs(self, ws),
                           LAMBDA sp : ~(sp[1].kind # sp[2].session))
        pres  == [i \in 1..Len(pairs) |->
                    [start |-> pairs[i][1].time,
                     base  |-> [tag |-> "Presentation", a |-> self,
                                p |-> pairs[i][2], s |-> pairs[i][1]]]]
    IN  subs \o pres

\* Course::events
events(ws, as) ==
    LET sessionEvents ==
            Flatten([w \in 1..Len(ws) |->
                [j \in 1..Len(ws[w].sessions) |-> SessionEvent(ws[w].sessions[j])]])
        assignmentEvents ==
            Flatten([a \in 1..Len(as) |-> AssignmentEvents(as[a], ws)])
    IN  Sort(sessionEvents \o assignmentEvents)

\* Event::description with the assignment's description taking precedence.
description_AssignmentFirst(e) ==
    CASE e.base.tag = "Session" -> <<>>
      [] e.base.tag = "Submission" ->
            IF e.base.a.description # <<>>
            THEN e.base.a.description ELSE e.base.sub.description
      [] e.base.tag = "Presentation" ->
            IF e.base.a.description # <<>>
            THEN e.base.a.description ELSE e.base.p.description

\* Event::description
description(e) ==
    CASE e.base.tag = "Session" -> <<>>
      [] e.base.tag = "Submission" ->
            IF e.base.sub.description # <<>>
            THEN e.base.sub.description ELSE e.base.a.description
      [] e.base.tag = "Presentation" ->
            IF e.base.p.description # <<>>
            THEN e.base.p.description ELSE e.base.a.description

\* ------------------------------------------------------- loaded courses
\* The courses the loader can hand over (toml::from_str in main): any week
\* index is accepted at load time, in range or not.
SeqsUpTo(S, n) == UNION {[1..k -> S] : k \in 0..n}

\* Week index lists of templates and presentations: empty, repeated, in and
\* out of declaration order, and with indices past the last week.
WeekLists ==
    { <<>>, <<0>>, <<0, 0>>, <<0, MaxWeeks - 1>>, <<MaxWeeks - 1, 0>>,
      <<0, MaxWeeks>>, <<MaxWeeks, MaxWeeks - 1>> }

Kinds == {1, 2}
Descriptions == {<<>>, <<6>>}

Lecture(start) ==
    [time |-> start + 1, title |-> <<1>>, location |-> <<2>>,
     presenters |-> <<1>>, kind |-> 1, duration |-> 2]

Tutorial(start) ==
    [time |-> start + 1, title |-> <<>>, location |-> <<>>,
     presenters |-> <<>>, kind |-> 2, duration |-> 1]

NativeSessions(pattern, start) ==
    CASE pattern = "none" -> <<>>
      [] pattern = "lecture" -> <<Lecture(start)>>
      [] pattern = "both" -> <<Lecture(start), Tutorial(start)>>

\* n weeks, seven time units apart, declared in ascending or descending order.
MakeWeeks(n, order, pattern) ==
    [i \in 1..n |->
        LET start == IF order = "asc" THEN 7 * (i - 1) ELSE 7 * (n - i)
        IN  [start |-> start, sessions |-> NativeSessions(pattern, start)]]

Templates ==
    { [first |-> 8, title |-> <<1>>, location |-> <<2>>, presenters |-> <<1>>,
       kind |-> 1, duration |-> 2, weeks |-> l] : l \in WeekLists }
    \cup
    { [first |-> 1, title |-> <<>>, location |-> <<>>, presenters |-> <<>>,
       kind |-> 2, duration |-> 1, weeks |-> l] : l \in WeekLists }

Submissions == [time : {1, 8}, name : {1}, description : Descriptions]

Presentations ==
    [name : {1}, session : Kinds, description : Descriptions, weeks : WeekLists]

OtherPresentation ==
    [name |-> 2, session |-> 2, description |-> <<>>, weeks |-> <<0>>]

Assignments ==
    [ name : {1}, description : {<<>>, <<5>>}, link : {1}, value : {<<>>},
      submissions : SeqsUpTo(Submissions, 1),
      presentations : SeqsUpTo(Presentations, 1)
                        \cup {<<p, OtherPresentation>> : p \in Presentations} ]

OtherAssignment ==
    [ name |-> 1, description |-> <<>>, link |-> 1, value |-> <<10>>,
      submissions |-> << [time |-> 8, name |-> 1, description |-> <<>>],
                         [time |-> 1, name |-> 2, description |-> <<6>>] >>,
      presentations |-> <<OtherPresentation>> ]

InitRest ==
    /\ result = [status |-> "none"]
    /\ before = [weeks |-> weeks, assignments |-> assignments,
                 repeat_sessions |-> repeat_sessions]
    /\ native = weeks
    /\ calls = 0
    /\ output = <<>>
    /\ previous = <<>>
    /\ descriptions = <<>>
    /\ evCalls = 0

\* Courses that exercise the expansion: many templates, one assignment.
InitExpand ==
    /\ \E n \in (MaxWeeks - 1)..MaxWeeks, order \in {"asc", "desc"},
          pattern \in {"none", "lecture"} :
            weeks = MakeWeeks(n, order, pattern)
    /\ repeat_sessions \in SeqsUpTo(Templates, MaxTemplates)
    /\ assignments = <<OtherAssignment>>
    /\ InitRest

\* Courses that exercise the event list: many assignments, at most one template.
InitEvents ==
    /\ \E n \in (MaxWeeks - 1)..MaxWeeks, pattern \in {"none", "lecture", "both"} :
            weeks = MakeWeeks(n, "asc", pattern)
    /\ repeat_sessions \in
          { <<>>,
            << [first |-> 1, title |-> <<>>, location |-> <<>>, presenters |-> <<>>,
                kind |-> 2, duration |-> 1, weeks |-> <<0, MaxWeeks - 1>>] >> }
    /\ assignments \in
          {<<>>} \cup {<<a, OtherAssignment>> : a \in Assignments}
    /\ InitRest

\* ---------------------------------------------------------------- actions
\* main: course.generate_repeats()
GenerateRepeats ==
    /\ calls < MaxCalls
    /\ LET g == generate_repeats(weeks, repeat_sessions)
       IN  /\ weeks' = g.weeks
           /\ result' = g.result
           /\ calls' = IF g.result.status = "ok" THEN calls + 1 ELSE calls
    /\ before' = [weeks |-> weeks, assignments |-> assignments,
                  repeat_sessions |-> repeat_sessions]
    \* the &mut borrow ends every Event borrowed from the course
    /\ output' = <<>>
    /\ previous' = <<>>
    /\ descriptions' = <<>>
    /\ evCalls' = 0
    /\ UNCHANGED <<assignments, repeat_sessions, native>>

\* main: `for event in course.events()`, reading event.description() of each
EventsCall ==
    /\ output' = events(weeks, assignments)
    /\ previous' = output
    /\ descriptions' = [i \in DOMAIN output' |-> description(output'[i])]
    /\ evCalls' = IF evCalls < 2 THEN evCalls + 1 ELSE 2
    /\ UNCHANGED <<weeks, assignments, repeat_sessions, result, before, native, calls>>

Next == GenerateRepeats \/ EventsCall

SpecExpand == InitExpand /\ [][Next]_vars
SpecEvents == InitEvents /\ [][Next]_vars

\* ------------------------------------------------ vocabulary of the claims
Range(s) == {s[i] : i \in DOMAIN s}

\* Number of occurrences of x in the sequence s.
Count(s, x) == Cardinality({i \in DOMAIN s : s[i] = x})

\* Every week index of every template exists.
AllInRange(ws, rs) ==
    \A i \in DOMAIN rs : \A k \in DOMAIN rs[i].weeks : rs[i].weeks[k] < Len(ws)

\* The session the specification asks of template t for target week index j:
\* the week's start plus the distance of t.first from the start of the week
\* named first in t's list, the other fields copied.
Expected(ws, t, j) ==
    [ time       |-> ws[j + 1].start + (t.first - ws[t.weeks[1] + 1].start),
      kind       |-> t.kind,
      title      |-> t.title,
      location   |-> t.location,
      presenters |-> t.presenters,
      duration   |-> t.duration ]

\* The (template, position) pairs that target week index j.
Targets(rs, j) ==
    {tk \in UNION {{<<i, k>> : k \in DOMAIN rs[i].weeks} : i \in DOMAIN rs} :
        rs[tk[1]].weeks[tk[2]] = j}

\* What the last call appended to week w (1-based position of the week).
Appended(w) ==
    SubSeq(weeks[w].sessions, Len(before.weeks[w].sessions) + 1,
           Len(weeks[w].sessions))

Succeeded == result.status = "ok"

\* C1: after a successful generate_repeats every session appended to week j is
\* the copy of a template t targeting j with time = weeks[j].start +
\* (t.first - weeks[t.weeks[0]].start), the other fields those of t, and every
\* (template, target week) has that session in the week.
C1_GeneratedSessionTime ==
    Succeeded =>
        \A w \in DOMAIN weeks :
            /\ \A s \in Range(Appended(w)) :
                  \E tk \in Targets(repeat_sessions, w - 1) :
                      s = Expected(weeks, repeat_sessions[tk[1]], w - 1)
            /\ \A tk \in Targets(repeat_sessions, w - 1) :
                  Expected(weeks, repeat_sessions[tk[1]], w - 1)
                      \in Range(Appended(w))

\* A template anchored at the last week, with a non-zero offset, was expanded
\* into the last and the first week.
C1_Witness ==
    /\ Succeeded
    /\ Len(weeks) = MaxWeeks
    /\ \E i \in DOMAIN repeat_sessions :
          /\ repeat_sessions[i].weeks = <<MaxWeeks - 1, 0>>
          /\ repeat_sessions[i].first # weeks[MaxWeeks].start
          /\ Expected(weeks, repeat_sessions[i], 0) \in Range(Appended(1))
          /\ Expected(weeks, repeat_sessions[i], MaxWeeks - 1)
                \in Range(Appended(MaxWeeks))

\* The first template with a week index past the last week, and the first
\* such index in its list (positions in repeat_sessions and in its weeks).
BadTemplates == {i \in DOMAIN repeat_sessions :
                    \E k \in DOMAIN repeat_sessions[i].weeks :
                        repeat_sessions[i].weeks[k] >= Len(weeks)}

FirstBadTemplate == CHOOSE i \in BadTemplates : \A j \in BadTemplates : i <= j

FirstBadPosition(t) ==
    CHOOSE k \in DOMAIN t.weeks :
        /\ t.weeks[k] >= Len(weeks)
        /\ \A j \in 1..(k - 1) : t.weeks[j] < Len(weeks)

\* C2: if some template names a week index >= the number of weeks, the call
\* returns an error naming the kind of the first such template and the first
\* out-of-range index of its list, and every week's session list is what it
\* was before the call.
C2_OutOfRangeAborts ==
    (result.status # "none" /\ BadTemplates # {}) =>
        /\ result.status = "err"
        /\ result.kind = repeat_sessions[FirstBadTemplate].kind
        /\ result.index =
              repeat_sessions[FirstBadTemplate].weeks[
                  FirstBadPosition(repeat_sessions[FirstBadTemplate])]
        /\ weeks = before.weeks

\* The call failed in the second template, behind a valid index of it and
\* behind a whole valid template, in a course with native sessions.
C2_Witness ==
    /\ result.status = "err"
    /\ Len(repeat_sessions) = 2
    /\ repeat_sessions[1].weeks = <<0, 0>>
    /\ repeat_sessions[2].weeks = <<0, MaxWeeks>>
    /\ repeat_sessions[1].kind # repeat_sessions[2].kind
    /\ result.kind = repeat_sessions[2].kind
    /\ result.index = MaxWeeks
    /\ weeks[1].sessions # <<>>

\* C5: a successful call appends to every week exactly one session per
\* position of a template's list that names the week: a week named k times by
\* a template receives k copies from it, duplicates included.
C5_OneSessionPerListedWeek ==
    Succeeded =>
        \A w \in DOMAIN weeks :
            /\ Len(Appended(w)) = Cardinality(Targets(repeat_sessions, w - 1))
            /\ \A tk \in Targets(repeat_sessions, w - 1) :
                  LET s == Expected(weeks, repeat_sessions[tk[1]], w - 1)
                  IN  Count(Appended(w), s) =
                        Cardinality({x \in Targets(repeat_sessions, w - 1) :
                            Expected(weeks, repeat_sessions[x[1]], w - 1) = s})

\* A template listing week 0 twice put two equal sessions into week 0.
C5_Witness ==
    /\ Succeeded
    /\ \E i \in DOMAIN repeat_sessions :
          /\ repeat_sessions[i].weeks = <<0, 0>>
          /\ Count(Appended(1), Expected(weeks, repeat_sessions[i], 0)) >= 2

\* C8: when no template has a week in its list (or there is no template) the
\* call succeeds and leaves every week as it was; an error is never due to a
\* template with an empty list, and such a template adds nothing.
C8_EmptyListsAreNoOp ==
    /\ (result.status # "none"
          /\ \A i \in DOMAIN repeat_sessions : repeat_sessions[i].weeks = <<>>)
        => (Succeeded /\ weeks = before.weeks)
    /\ result.status = "err" => BadTemplates # {}
    /\ Succeeded =>
          \A w \in DOMAIN weeks :
              \A s \in Range(Appended(w)) :
                  \E i \in DOMAIN repeat_sessions :
                      /\ repeat_sessions[i].weeks # <<>>
                      /\ s.kind = repeat_sessions[i].kind

\* Two templates with different first timestamps and no weeks were expanded
\* in a course whose weeks hold sessions.
C8_Witness ==
    /\ Succeeded
    /\ Len(repeat_sessions) = 2
    /\ repeat_sessions[1].weeks = <<>>
    /\ repeat_sessions[2].weeks = <<>>
    /\ repeat_sessions[1].first # repeat_sessions[2].first
    /\ weeks[1].sessions # <<>>
    /\ weeks = native

\* Position of the (template, position) pair tk among the pairs targeting
\* week index j, in template order and then list order.
Rank(rs, j, tk) ==
    1 + Cardinality({x \in Targets(rs, j) :
                        \/ x[1] < tk[1]
                        \/ (x[1] = tk[1] /\ x[2] < tk[2])})

\* C10: a successful call only appends: every week keeps its start and its
\* earlier sessions in order, followed by the generated sessions in template
\* order and, within a template, in the order of its week list; the number
\* of weeks, the templates and the assignments are unchanged.
C10_AppendsInDeclarationOrder ==
    Succeeded =>
        /\ Len(weeks) = Len(before.weeks)
        /\ repeat_sessions = before.repeat_sessions
        /\ assignments = before.assignments
        /\ \A w \in DOMAIN weeks :
              /\ weeks[w].start = before.weeks[w].start
              /\ SubSeq(weeks[w].sessions, 1, Len(before.weeks[w].sessions))
                    = before.weeks[w].sessions
              /\ Len(Appended(w)) = Cardinality(Targets(repeat_sessions, w - 1))
              /\ \A tk \in Targets(repeat_sessions, w - 1) :
                    Appended(w)[Rank(repeat_sessions, w - 1, tk)]
                        = Expected(weeks, repeat_sessions[tk[1]], w - 1)

\* Week 0 held sessions and received, in this order, the session of the first
\* template and the later-listed session of the second template.
C10_Witness ==
    /\ Succeeded
    /\ Len(repeat_sessions) = 2
    /\ repeat_sessions[1].weeks = <<0>>
    /\ repeat_sessions[2].weeks = <<MaxWeeks - 1, 0>>
    /\ before.weeks[1].sessions # <<>>
    /\ Len(Appended(1)) = 2
    /\ Appended(1)[1] # Appended(1)[2]
    /\ Appended(1)[1] = Expected(weeks, repeat_sessions[1], 0)

\* All (template, position) pairs of the course.
AllTargets(rs) == UNION {{<<i, k>> : k \in DOMAIN rs[i].weeks} : i \in DOMAIN rs}

\* All (week, position) pairs of the sessions held by the weeks ws.
SessionSlots(ws) == UNION {{<<w, j>> : j \in DOMAIN ws[w].sessions} : w \in DOMAIN ws}

\* What the calls so far generated for week w, behind its native sessions.
Generated(w) ==
    SubSeq(weeks[w].sessions, Len(native[w].sessions) + 1, Len(weeks[w].sessions))

\* C9: the templates stay, so after k successful calls every week holds its
\* native sessions once, in front, and k copies of every session a template
\* generates for it; events() then returns as many session events of a
\* generated session as the native weeks hold of it plus k per generation.
C9_RepeatedExpansionDuplicates ==
    /\ repeat_sessions = before.repeat_sessions
    /\ ~AllInRange(weeks, repeat_sessions) => (calls = 0 /\ weeks = native)
    /\ AllInRange(weeks, repeat_sessions) =>
          \A w \in DOMAIN weeks :
              /\ SubSeq(weeks[w].sessions, 1, Len(native[w].sessions))
                    = native[w].sessions
              /\ Len(Generated(w))
                    = calls * Cardinality(Targets(repeat_sessions, w - 1))
              /\ \A tk \in Targets(repeat_sessions, w - 1) :
                    LET s == Expected(weeks, repeat_sessions[tk[1]], w - 1)
                    IN  /\ Count(Generated(w), s) = calls *
                              Cardinality({x \in Targets(repeat_sessions, w - 1) :
                                  Expected(weeks, repeat_sessions[x[1]], w - 1) = s})
                        /\ evCalls >= 1 =>
                              Count(output, [start |-> s.time,
                                             base |-> [tag |-> "Session", s |-> s]])
                                = Cardinality({wj \in SessionSlots(native) :
                                      native[wj[1]].sessions[wj[2]] = s})
                                  + calls *
                                    Cardinality({x \in AllTargets(repeat_sessions) :
                                      LET t == repeat_sessions[x[1]]
                                      IN  Expected(weeks, t, t.weeks[x[2]]) = s})

\* After two successful calls on a course with native sessions, events()
\* returned two events for a session a template generated once per call.
C9_Witness ==
    /\ calls = 2
    /\ evCalls >= 1
    /\ native[1].sessions # <<>>
    /\ \E i \in DOMAIN repeat_sessions :
          /\ repeat_sessions[i].weeks = <<0>>
          /\ LET s == Expected(weeks, repeat_sessions[i], 0)
             IN  /\ Count(Generated(1), s) = 2
                 /\ Count(output, [start |-> s.time,
                                   base |-> [tag |-> "Session", s |-> s]]) = 2

\* All (assignment, submission) position pairs.
SubmissionSlots(as) ==
    UNION {{<<a, i>> : i \in DOMAIN as[a].submissions} : a \in DOMAIN as}

\* All (assignment, presentation, position in its week list, session position)
\* tuples whose week index is in range and whose session has the kind the
\* presentation asks for.
PresentationSlots(ws, as) ==
    UNION {UNION {UNION {
        {<<a, pi, k, j>> : j \in
            {j \in (IF as[a].presentations[pi].weeks[k] < Len(ws)
                    THEN DOMAIN ws[as[a].presentations[pi].weeks[k] + 1].sessions
                    ELSE {}) :
                ws[as[a].presentations[pi].weeks[k] + 1].sessions[j].kind
                    = as[a].presentations[pi].session}}
        : k \in DOMAIN as[a].presentations[pi].weeks}
        : pi \in DOMAIN as[a].presentations}
        : a \in DOMAIN as}

EventOfSession(ws, wj) ==
    [start |-> ws[wj[1]].sessions[wj[2]].time,
     base  |-> [tag |-> "Session", s |-> ws[wj[1]].sessions[wj[2]]]]

EventOfSubmission(as, x) ==
    [start |-> as[x[1]].submissions[x[2]].time,
     base  |-> [tag |-> "Submission", a |-> as[x[1]],
                sub |-> as[x[1]].submissions[x[2]]]]

EventOfPresentation(ws, as, x) ==
    LET p == as[x[1]].presentations[x[2]]
        session == ws[p.weeks[x[3]] + 1].sessions[x[4]]
    IN  [start |-> session.time,
         base  |-> [tag |-> "Presentation", a |-> as[x[1]], p |-> p, s |-> session]]

\* C3: events() returns one event per session of a week, one per submission
\* of an assignment and one per matching (assignment, presentation, list
\* position, session) tuple, and nothing else: the length is the sum of the
\* three numbers and every event occurs as often as it has sources.
C3_EventCount ==
    evCalls >= 1 =>
        /\ Len(output) = Cardinality(SessionSlots(weeks))
                         + Cardinality(SubmissionSlots(assignments))
                         + Cardinality(PresentationSlots(weeks, assignments))
        /\ \A e \in Range(output) :
              Count(output, e) =
                  Cardinality({x \in SessionSlots(weeks) :
                                  EventOfSession(weeks, x) = e})
                  + Cardinality({x \in SubmissionSlots(assignments) :
                                  EventOfSubmission(assignments, x) = e})
                  + Cardinality({x \in PresentationSlots(weeks, assignments) :
                                  EventOfPresentation(weeks, assignments, x) = e})
        /\ \A x \in SessionSlots(weeks) : EventOfSession(weeks, x) \in Range(output)
        /\ \A x \in SubmissionSlots(assignments) :
              EventOfSubmission(assignments, x) \in Range(output)
        /\ \A x \in PresentationSlots(weeks, assignments) :
              EventOfPresentation(weeks, assignments, x) \in Range(output)

\* events() ran on an expanded course with sessions, submissions and matching
\* presentations, where a week also holds a session of another kind than a
\* presentation asks for.
C3_Witness ==
    /\ evCalls >= 1
    /\ calls >= 1
    /\ SubmissionSlots(assignments) # {}
    /\ PresentationSlots(weeks, assignments) # {}
    /\ \E a \in DOMAIN assignments : \E pi \in DOMAIN assignments[a].presentations :
          LET p == assignments[a].presentations[pi]
          IN  \E k \in DOMAIN p.weeks :
                /\ p.weeks[k] < Len(weeks)
                /\ \E j \in DOMAIN weeks[p.weeks[k] + 1].sessions :
                      weeks[p.weeks[k] + 1].sessions[j].kind # p.session
    /\ Len(output) = Cardinality(SessionSlots(weeks))
                     + Cardinality(SubmissionSlots(assignments))
                     + Cardinality(PresentationSlots(weeks, assignments))

\* a is before b in the lexicographic order of two sequences whose elements
\* are ordered by Lt (a proper prefix is before; so is None before Some).
VecBefore(Lt(_, _), a, b) ==
    \E k \in 1..Len(b) :
        /\ k <= Len(a) + 1
        /\ \A j \in 1..(k - 1) : a[j] = b[j]
        /\ k <= Len(a) => Lt(a[k], b[k])

IntBefore(x, y) == x < y

\* fs lists, for two records, each field's [eq, lt] in the declared order:
\* the first record is before the second iff the first differing field is.
FieldsBefore(fs) ==
    \E k \in DOMAIN fs : fs[k].lt /\ \A j \in 1..(k - 1) : fs[j].eq

SessionFields(a, b) ==
    << [eq |-> a.time = b.time, lt |-> a.time < b.time],
       [eq |-> a.title = b.title, lt |-> VecBefore(IntBefore, a.title, b.title)],
       [eq |-> a.location = b.location,
        lt |-> VecBefore(IntBefore, a.location, b.location)],
       [eq |-> a.presenters = b.presenters,
        lt |-> VecBefore(IntBefore, a.presenters, b.presenters)],
       [eq |-> a.kind = b.kind, lt |-> a.kind < b.kind],
       [eq |-> a.duration = b.duration, lt |-> a.duration < b.duration] >>

SubmissionFields(a, b) ==
    << [eq |-> a.time = b.time, lt |-> a.time < b.time],
       [eq |-> a.name = b.name, lt |-> a.name < b.name],
       [eq |-> a.description = b.description,
        lt |-> VecBefore(IntBefore, a.description, b.description)] >>

PresentationFields(a, b) ==
    << [eq |-> a.name = b.name, lt |-> a.name < b.name],
       [eq |-> a.session = b.session, lt |-> a.session < b.session],
       [eq |-> a.description = b.description,
        lt |-> VecBefore(IntBefore, a.description, b.description)],
       [eq |-> a.weeks = b.weeks, lt |-> VecBefore(IntBefore, a.weeks, b.weeks)] >>

SubmissionBefore(a, b) == FieldsBefore(SubmissionFields(a, b))

PresentationBefore(a, b) == FieldsBefore(PresentationFields(a, b))

AssignmentFields(a, b) ==
    << [eq |-> a.name = b.name, lt |-> a.name < b.name],
       [eq |-> a.description = b.description,
        lt |-> VecBefore(IntBefore, a.description, b.description)],
       [eq |-> a.link = b.link, lt |-> a.link < b.link],
       [eq |-> a.value = b.value, lt |-> VecBefore(IntBefore, a.value, b.value)],
       [eq |-> a.submissions = b.submissions,
        lt |-> VecBefore(SubmissionBefore, a.submissions, b.submissions)],
       [eq |-> a.presentations = b.presentations,
        lt |-> VecBefore(PresentationBefore, a.presentations, b.presentations)] >>

\* The provenance of event x is before that of event y: Session before
\* Submission before Presentation, then the records in declared field order.
ProvenanceBefore(x, y) ==
    \/ x.tag = "Session" /\ y.tag \in {"Submission", "Presentation"}
    \/ x.tag = "Submission" /\ y.tag = "Presentation"
    \/ x.tag = "Session" /\ y.tag = "Session"
          /\ FieldsBefore(SessionFields(x.s, y.s))
    \/ x.tag = "Submission" /\ y.tag = "Submission"
          /\ FieldsBefore(AssignmentFields(x.a, y.a) \o SubmissionFields(x.sub, y.sub))
    \/ x.tag = "Presentation" /\ y.tag = "Presentation"
          /\ FieldsBefore(AssignmentFields(x.a, y.a)
                          \o PresentationFields(x.p, y.p)
                          \o SessionFields(x.s, y.s))

\* C4: the sequence returned by events() is non-decreasing by start time;
\* adjacent events with the same start are equal or in the order of their
\* provenance (variant, then declared field order); a second call on the
\* same course returns the same sequence.
C4_EventsSorted ==
    /\ evCalls >= 1 =>
          \A i \in 1..(Len(output) - 1) :
              /\ output[i].start <= output[i + 1].start
              /\ output[i].start = output[i + 1].start =>
                    \/ output[i].base = output[i + 1].base
                    \/ ProvenanceBefore(output[i].base, output[i + 1].base)
    /\ evCalls >= 2 => output = previous

\* events() ran twice; the output holds, at one start time, a session, a
\* submission and a presentation event next to each other, and two events of
\* one variant that differ only behind their start.
C4_Witness ==
    /\ evCalls >= 2
    /\ \E i \in 1..(Len(output) - 1) :
          /\ output[i].start = output[i + 1].start
          /\ output[i].base.tag = "Session"
          /\ output[i + 1].base.tag = "Submission"
    /\ \E i \in 1..(Len(output) - 1) :
          /\ output[i].start = output[i + 1].start
          /\ output[i].base.tag = "Submission"
          /\ output[i + 1].base.tag = "Presentation"
    /\ \E i \in 1..(Len(output) - 1) :
          /\ output[i].start = output[i + 1].start
          /\ output[i].base.tag = "Submission"
          /\ output[i + 1].base.tag = "Submission"
          /\ output[i].base.a # output[i + 1].base.a
    /\ \E i \in 1..(Len(output) - 1) :
          /\ output[i].start = output[i + 1].start
          /\ output[i].base.tag = "Session"
          /\ output[i + 1].base.tag = "Session"
          /\ output[i].base # output[i + 1].base

\* C6: a presentation's week index that is out of range, or whose week holds
\* no session of the presentation's kind, yields no event: every presentation
\* event of the output pairs a presentation of an assignment with a session
\* of the asked kind in a week its list names; the events of all sessions,
\* submissions and matching presentations are produced all the same.
C6_UnmatchedPresentationsSkipped ==
    evCalls >= 1 =>
        /\ \A e \in Range(output) :
              e.base.tag = "Presentation" =>
                  /\ e.start = e.base.s.time
                  /\ \E a \in DOMAIN assignments :
                        /\ e.base.a = assignments[a]
                        /\ e.base.p \in Range(assignments[a].presentations)
                  /\ e.base.s.kind = e.base.p.session
                  /\ \E k \in DOMAIN e.base.p.weeks :
                        /\ e.base.p.weeks[k] < Len(weeks)
                        /\ e.base.s \in Range(weeks[e.base.p.weeks[k] + 1].sessions)
        /\ \A a \in DOMAIN assignments :
              \A p \in Range(assignments[a].presentations) :
                  (\A k \in DOMAIN p.weeks :
                      \/ p.weeks[k] >= Len(weeks)
                      \/ \A s \in Range(weeks[p.weeks[k] + 1].sessions) :
                            s.kind # p.session)
                  => ~ \E e \in Range(output) :
                          /\ e.base.tag = "Presentation"
                          /\ e.base.a = assignments[a]
                          /\ e.base.p = p
        /\ \A x \in SessionSlots(weeks) : EventOfSession(weeks, x) \in Range(output)
        /\ \A x \in SubmissionSlots(assignments) :
              EventOfSubmission(assignments, x) \in Range(output)
        /\ \A x \in PresentationSlots(weeks, assignments) :
              EventOfPresentation(weeks, assignments, x) \in Range(output)

\* events() ran on a course where one presentation names a week with a
\* session of its kind and an out-of-range week, and got its event for the
\* former, and another names only a week that holds sessions of another
\* kind, and got none; sessions and submissions gave their events.
C6_Witness ==
    /\ evCalls >= 1
    /\ \E a \in DOMAIN assignments : \E p \in Range(assignments[a].presentations) :
          /\ p.weeks = <<0, MaxWeeks>>
          /\ \E e \in Range(output) :
                e.base.tag = "Presentation" /\ e.base.a = assignments[a] /\ e.base.p = p
    /\ \E a \in DOMAIN assignments : \E p \in Range(assignments[a].presentations) :
          /\ p.weeks = <<0>>
          /\ weeks[1].sessions # <<>>
          /\ \A s \in Range(weeks[1].sessions) : s.kind # p.session
          /\ \A e \in Range(output) : e.base.tag = "Presentation" => e.base.p # p
    /\ \E e \in Range(output) : e.base.tag = "Submission"
    /\ \E e \in Range(output) : e.base.tag = "Session"

\* C7: the description read from a submission event is the submission's own
\* when it has one, else the assignment's (none when that has none); from a
\* presentation event the presentation's own, else the assignment's; from a
\* session event none.
C7_DescriptionFallback ==
    evCalls >= 1 =>
        /\ Len(descriptions) = Len(output)
        /\ \A i \in DOMAIN output :
              LET e == output[i].base
                  d == descriptions[i]
              IN  /\ e.tag = "Session" => d = <<>>
                  /\ (e.tag = "Submission" /\ e.sub.description # <<>>)
                        => d = e.sub.description
                  /\ (e.tag = "Submission" /\ e.sub.description = <<>>)
                        => d = e.a.description
                  /\ (e.tag = "Presentation" /\ e.p.description # <<>>)
                        => d = e.p.description
                  /\ (e.tag = "Presentation" /\ e.p.description = <<>>)
                        => d = e.a.description

\* One assignment with a description gave a submission event with the
\* submission's own description and a presentation event that fell back to
\* the assignment's, and an assignment without one gave an event without.
C7_Witness ==
    /\ evCalls >= 1
    /\ \E i \in DOMAIN output :
          /\ output[i].base.tag = "Submission"
          /\ output[i].base.a.description # <<>>
          /\ output[i].base.sub.description # <<>>
          /\ output[i].base.sub.description # output[i].base.a.description
          /\ descriptions[i] = output[i].base.sub.description
    /\ \E i \in DOMAIN output :
          /\ output[i].base.tag = "Presentation"
          /\ output[i].base.a.description # <<>>
          /\ output[i].base.p.description = <<>>
          /\ descriptions[i] = output[i].base.a.description
    /\ \E i \in DOMAIN output :
          /\ output[i].base.tag = "Submission"
          /\ output[i].base.sub.description = <<>>
          /\ descriptions[i] = <<>>

====
